---------------------------- MODULE Spec2Model ----------------------------
(***************************************************************************)
(* Agent-to-agent collaboration of the Emergence example agents.          *)
(*                                                                         *)
(*  Part I   PlatformClient.call_agent: one call with bounded retries and  *)
(*           backoff (agent-boilerplate/src/platform_client.py).           *)
(*  Part II  RealtimeIdeaAgent: the inbox poll of                          *)
(*           wait_for_collaboration_response and the background            *)
(*           _message_processing_loop, which share processed_messages      *)
(*           (testNetwork/IdeaAgent/main.py); the same loop of             *)
(*           StandaloneValidatorAgent (testNetwork/ValidatorAgent/main.py).*)
(*  Part III the request ids collaborate_with_agent builds from the clock  *)
(*           second and the instance id.                                   *)
(*  Part IV  the heartbeat loops (PlatformClient.ping, the two             *)
(*           _health_monitoring_loop, TaskManagerAgent.send_ping).         *)
(*  Part V   peer discovery: RealtimeIdeaAgent._agent_discovery_loop and   *)
(*           TaskManagerAgent.test_real_messaging.                         *)
(*  Part VI  PlatformClient.find_agents.                                   *)
(*  Part VII register_with_platform and the service start.                 *)
(*  Part VIII the replies of StandaloneValidatorAgent to one request.      *)
(*  Part IX  CustomerSupportAgent.handle_billing_inquiry                   *)
(*           (examples/customer-support-billing-collaboration.py).         *)
(*                                                                         *)
(* Each part has its own specification (Spec, WaitSpec, IdSpec, HbSpec,    *)
(* DiscSpec, FaSpec, RegSpec, ValSpec, BillSpec), which leaves the other   *)
(* parts' variables at their initial values.                               *)
(***************************************************************************)
EXTENDS Integers, Sequences, FiniteSets, TLC

(***************************************************************************)
(* Bounds of the model.                                                    *)
(***************************************************************************)
\* largest max_retries a call is made with
MaxRetriesBound == 3

\* number of messages the platform delivers to the agent's inbox
MaxMessages == 2

\* last clock second of the model, and number of request ids it follows
MaxClock == 2
MaxRequests == 3

\* the timeout the waits are started with (45 in collaborate_with_agent),
\* on the model's scale
MaxTimeout == 3

\* number of heartbeats whose outcomes the model remembers
MaxPings == 3

\* longest instance list the platform answers with
MaxInstances == 2

\* largest number of billing agents discovery returns
MaxAgents == 4

(***************************************************************************)
(* Part I.  PlatformClient.call_agent                                      *)
(***************************************************************************)
VARIABLES
    max_retries,   \* the max_retries argument of the call
    attempt,       \* loop index of "for attempt in range(max_retries + 1)"
    retry_delay,   \* the local retry_delay, a rational <<numerator, denominator>>
    last_error,    \* the local last_error (None until an attempt fails)
    pc,            \* position of the call: "post", "backoff", "done", "raised"
    json_error,    \* the class response.json() raises with the installed requests
    result,        \* the value returned (None while the call runs)
    posts,         \* observation: number of requests.post calls made
    sleeps,        \* observation: the delays passed to time.sleep, in order
    replies        \* observation: the outcome of each requests.post, in order

vars_call == <<max_retries, attempt, retry_delay, last_error, pc, json_error,
               result, posts, sleeps, replies>>

(***************************************************************************)
(* Part II.  RealtimeIdeaAgent: state shared by its threads, and the       *)
(* locals of wait_for_collaboration_response (per calling thread) and of   *)
(* _message_processing_loop.                                               *)
(***************************************************************************)
VARIABLES
    inbox,               \* the platform's message list of this instance
    processed_messages,  \* self.processed_messages
    clock,               \* int(time.time()), the second the request ids are made of
    timeout,             \* the timeout argument of the waits
    agent_class,         \* the class of the agent the process runs
    wait_request,        \* per thread: the request the thread waits for, or None
    wait_pc,             \* per thread: "idle", "poll", "scan", "add"
    wait_messages,       \* per thread: the local messages of the wait
    wait_index,          \* per thread: position of "for message in messages"
    wait_elapsed,        \* per thread: time.time() - start_time
    wait_result,         \* per thread: the value the last wait returned
    loop_pc,             \* the loop: "stopped", "fetch", "scan", "handle", "waiting", "add"
    loop_messages,       \* the local messages of the loop
    loop_index,          \* position of "for message in messages" of the loop
    returned,            \* observation: ids of the messages the waits have returned on
    handled,             \* observation: ids of the messages the loop has passed to the handler
    replied              \* observation: ids of the messages a reply has been POSTed for

\* the locals of the waits, those of the loop, and the observations
wait_locals == <<wait_request, wait_pc, wait_messages, wait_index, wait_elapsed,
                 wait_result>>
loop_locals == <<loop_pc, loop_messages, loop_index>>
observations == <<returned, handled, replied>>

vars_poll == <<inbox, processed_messages, timeout, agent_class, wait_locals,
               loop_locals, observations>>

vars_wait == <<clock, vars_poll>>

(***************************************************************************)
(* Part III.  The request ids collaborate_with_agent generates.            *)
(***************************************************************************)
VARIABLES
    request_ids    \* observation: the request ids generated, with thread and help type

vars_ids == <<request_ids>>

(***************************************************************************)
(* Part IV.  The heartbeat: PlatformClient.ping in the boilerplate's main  *)
(* loop, _health_monitoring_loop of the two network agents and             *)
(* TaskManagerAgent.send_ping in start.                                    *)
(***************************************************************************)
VARIABLES
    hb_agent,       \* the class whose heartbeat loop runs
    hb_registered,  \* self.instance_id is set
    hb_running,     \* self.running (True throughout for the "while True" loops)
    hb_pc,          \* "off", "send", "sleep", "exited", "dead"
    hb_slept,       \* how much of the sleep between two heartbeats has passed
    hb_log          \* observation: the outcomes of the last heartbeats POSTed

vars_hb == <<hb_agent, hb_registered, hb_running, hb_pc, hb_slept, hb_log>>

(***************************************************************************)
(* Part V.  Peer discovery: RealtimeIdeaAgent._agent_discovery_loop and    *)
(* the target selection of TaskManagerAgent.test_real_messaging.           *)
(***************************************************************************)
VARIABLES
    platform_list,     \* the 'instances' list /api/instances answers with
    available_agents,  \* self.available_agents: instance id to instance
    disc_pc,           \* the discovery loop: "off", "fetch", "sleep"
    disc_previous,     \* observation: the cache before the last refresh cycle
    disc_status,       \* observation: how the last fetch of the loop ended
    target_instance    \* the target_instance test_real_messaging chose, or None

vars_disc == <<platform_list, available_agents, disc_pc, disc_previous,
               disc_status, target_instance>>

(***************************************************************************)
(* Part VI.  PlatformClient.find_agents                                    *)
(***************************************************************************)
VARIABLES
    fa_max_retries,  \* the max_retries argument
    fa_attempt,      \* loop index of "for attempt in range(max_retries + 1)"
    fa_pc,           \* "off", "get", "done", "raised"
    fa_result,       \* the value returned (None while the call runs)
    fa_replies,      \* observation: the outcome of each requests.get, in order
    fa_sleeps        \* observation: the delays passed to time.sleep, in half seconds

vars_fa == <<fa_max_retries, fa_attempt, fa_pc, fa_result, fa_replies, fa_sleeps>>

(***************************************************************************)
(* Part VII.  Registration: register_with_platform of RealtimeIdeaAgent,   *)
(* StandaloneValidatorAgent and TaskManagerAgent, and the service start.   *)
(***************************************************************************)
VARIABLES
    reg_agent,      \* the class that registers
    reg_pc,         \* "off", "list", "post", "returned", "started", "not_started"
    instance_id,    \* self.instance_id
    api_key,        \* self.api_key
    running,        \* the background loops have been started
    reg_result,     \* what register_with_platform returned (None while it runs)
    reg_listing,    \* observation: how the GET of /api/agents ended
    reg_reply,      \* observation: how the POST of /api/webhook/register ended
    reg_requests    \* observation: the requests made, in order

vars_reg == <<reg_agent, reg_pc, instance_id, api_key, running, reg_result,
              reg_listing, reg_reply, reg_requests>>

(***************************************************************************)
(* Part VIII.  StandaloneValidatorAgent: the replies to one request.       *)
(***************************************************************************)
VARIABLES
    val_pc,        \* "off", "receive", "handle", "handled"
    val_message,   \* the message passed to handle_validation_request, or None
    val_replies    \* observation: the messages POSTed while it was handled

vars_val == <<val_pc, val_message, val_replies>>

(***************************************************************************)
(* Part IX.  CustomerSupportAgent.handle_billing_inquiry                   *)
(***************************************************************************)
VARIABLES
    inquiry_type,    \* the inquiry_type argument
    billing_agents,  \* the list find_agents("billing") returned (None before)
    bill_pc,         \* "off", "find", "call", "returned"
    bill_i,          \* the loop index i of "for i, agent in enumerate(...)"
    bill_calls,      \* observation: the calls of call_agent made, in order
    bill_result      \* the value returned (None while the handler runs)

vars_bill == <<inquiry_type, billing_agents, bill_pc, bill_i, bill_calls,
               bill_result>>

\* the variables of Parts IV and later
vars_later == <<vars_hb, vars_disc, vars_fa, vars_reg, vars_val, vars_bill>>

\* what the actions of a part leave alone: the variables of the other parts
outside_call == <<vars_wait, vars_ids, vars_later>>
outside_wait == <<vars_call, vars_ids, vars_later>>
outside_ids == <<vars_call, vars_poll, vars_later>>
outside_hb ==
    <<vars_call, vars_wait, vars_ids, vars_disc, vars_fa, vars_reg, vars_val, vars_bill>>
outside_disc ==
    <<vars_call, vars_wait, vars_ids, vars_hb, vars_fa, vars_reg, vars_val, vars_bill>>
outside_fa ==
    <<vars_call, vars_wait, vars_ids, vars_hb, vars_disc, vars_reg, vars_val, vars_bill>>
outside_reg ==
    <<vars_call, vars_wait, vars_ids, vars_hb, vars_disc, vars_fa, vars_val, vars_bill>>
outside_val ==
    <<vars_call, vars_wait, vars_ids, vars_hb, vars_disc, vars_fa, vars_reg, vars_bill>>
outside_bill ==
    <<vars_call, vars_wait, vars_ids, vars_hb, vars_disc, vars_fa, vars_reg, vars_val>>

\* Python's None
None == [none |-> TRUE]

(***************************************************************************)
(* Delays are rationals <<n, d>> (d a power of two), kept in lowest terms, *)
(* so that the products with 1.5 are exact, as they are in binary floating *)
(* point for the handful of multiplications a call can make.               *)
(***************************************************************************)
RECURSIVE Norm(_)
Norm(q) == IF q[2] > 1 /\ q[1] % 2 = 0 /\ q[2] % 2 = 0
           THEN Norm(<<q[1] \div 2, q[2] \div 2>>)
           ELSE q

Whole(n) == <<n, 1>>

\* q * (a / b)
Times(q, a, b) == Norm(<<q[1] * a, q[2] * b>>)

\* q <= r
Leq(q, r) == q[1] * r[2] <= r[1] * q[2]

\* Python's min(q, r): the first argument unless the second is smaller
MinOf(q, r) == IF Leq(q, r) THEN q ELSE r

\* retry_delay = 1
InitialDelay == 1

\* the factor 1.5 of the backoff, as BackoffNum / BackoffDen
BackoffNum == 3
BackoffDen == 2

\* the cap of the backoff
BackoffCap == 10

\* the factor and the cap of the rate-limit delay
RateLimitFactor == 2
RateLimitCap == 30

\* mutant of NextDelay: the cap of 10 is forgotten
NextDelay_NoCap(delay) == Times(delay, BackoffNum, BackoffDen)

\* retry_delay = min(retry_delay * 1.5, 10)
NextDelay(delay) == MinOf(Times(delay, BackoffNum, BackoffDen), Whole(BackoffCap))

\* mutant of RateLimitDelay: the delay is not doubled
RateLimitDelay_NoDoubling(delay) == MinOf(delay, Whole(RateLimitCap))

\* retry_delay = min(retry_delay * 2, 30)
RateLimitDelay(delay) == MinOf(Times(delay, RateLimitFactor, 1), Whole(RateLimitCap))

(***************************************************************************)
(* What one requests.post can produce: a response (status and body) or an  *)
(* exception.  The body matters only where the code parses it: on 200 and  *)
(* in the final else branch; elsewhere it is left as "unread".             *)
(***************************************************************************)
\* statuses whose body the code parses
ParsedStatuses == {200, 201, 204, 400, 403}

\* statuses whose body the code never reads
UnparsedStatuses == {404, 408, 429, 500, 503}

\* a JSON object with a "message", a JSON object without, JSON that is no
\* object (an array, a string), and text that is no JSON
Bodies == {"object_message", "object", "array", "invalid"}

\* exceptions of requests.post, by the most specific class the handlers tell
\* apart: requests.exceptions.Timeout, .ConnectionError, another
\* .RequestException, and any other Exception
Exceptions == {"Timeout", "ConnectionError", "RequestException", "Exception"}

\* what response.json() raises on a body that is no JSON: a subclass of
\* RequestException (requests >= 2.27) or a plain ValueError (older releases)
JsonErrors == {"RequestException", "Exception"}

Outcomes ==
    [kind : {"response"}, status_code : ParsedStatuses, body : Bodies]
    \cup [kind : {"response"}, status_code : UnparsedStatuses, body : {"unread"}]
    \cup [kind : {"exception"}, exc : Exceptions]

\* the classes an exception is an instance of
Bases(exc) ==
    CASE exc = "Timeout"          -> {"Timeout", "RequestException", "Exception"}
      [] exc = "ConnectionError"  -> {"ConnectionError", "RequestException", "Exception"}
      [] exc = "RequestException" -> {"RequestException", "Exception"}
      [] OTHER                    -> {"Exception"}

\* response.json() succeeds
BodyParses(body) == body # "invalid"

\* response.json() is a dict, so that .get works on it
BodyIsObject(body) == body \in {"object_message", "object"}

\* error_details.get("message", "Unknown error")
MessageOf(body) == IF body = "object_message" THEN "peer message" ELSE "Unknown error"

\* the value of response.json()
Json(body) == [json |-> body]

\* mutant of HandleException: the RequestException clause comes first and
\* shadows the clauses of its subclasses
HandleException_BaseFirst(exc) ==
    IF "RequestException" \in Bases(exc)
    THEN [caught |-> TRUE, error |-> [error |-> "Request failed", type |-> "request_error"]]
    ELSE IF "Exception" \in Bases(exc)
    THEN [caught |-> TRUE, error |-> [error |-> "Unexpected error", type |-> "unexpected_error"]]
    ELSE [caught |-> FALSE]

\* the except clauses, in order: the error recorded, or uncaught
HandleException(exc) ==
    IF "Timeout" \in Bases(exc)
    THEN [caught |-> TRUE, error |-> [error |-> "Connection timeout", type |-> "timeout"]]
    ELSE IF "ConnectionError" \in Bases(exc)
    THEN [caught |-> TRUE, error |-> [error |-> "Connection failed", type |-> "connection_error"]]
    ELSE IF "RequestException" \in Bases(exc)
    THEN [caught |-> TRUE, error |-> [error |-> "Request failed", type |-> "request_error"]]
    ELSE IF "Exception" \in Bases(exc)
    THEN [caught |-> TRUE, error |-> [error |-> "Unexpected error", type |-> "unexpected_error"]]
    ELSE [caught |-> FALSE]

\* if response.status_code == 200
IsSuccess(s) == s = 200

\* mutant of IsNotFound: the branch tests another status
IsNotFound_Gone(s) == s = 410

\* elif response.status_code == 404
IsNotFound(s) == s = 404

\* elif response.status_code == 408
IsTimeoutStatus(s) == s = 408

\* elif response.status_code == 429
IsRateLimited(s) == s = 429

\* mutants of IsServerError: 500 itself is left out; every status from 400
\* on is taken for a server error
IsServerError_Above500(s) == s > 500

IsServerError_From400(s) == s >= 400

\* elif response.status_code >= 500
IsServerError(s) == s >= 500

\* the else branch: the error returned for any other status
ClientError(response) ==
    IF BodyIsObject(response.body)
    THEN [error |-> MessageOf(response.body), status_code |-> response.status_code]
    ELSE [error |-> "HTTP " \o ToString(response.status_code),
          status_code |-> response.status_code]

\* mutant of RecordError: the first error recorded is kept
RecordError_KeepFirst(old, new) == IF old = None THEN new ELSE old

\* last_error = {...}: the error of this attempt replaces the recorded one
RecordError(old, new) == new

\* the three ways an attempt ends
Return(value) == [step |-> "return", value |-> value]
Retry(error, delay) == [step |-> "retry", last_error |-> error, retry_delay |-> delay]
Raise(exc) == [step |-> "raise", exc |-> exc]

\* an exception inside the try block
Caught(exc, old, delay) ==
    LET h == HandleException(exc) IN
    IF h.caught THEN Retry(RecordError(old, h.error), delay) ELSE Raise(exc)

\* the if/elif chain on response.status_code
HandleResponse(response, old, delay, jsonExc) ==
    LET s == response.status_code IN
    IF IsSuccess(s)
    THEN IF BodyParses(response.body)
         THEN Return(Json(response.body))
         ELSE Caught(jsonExc, old, delay)
    ELSE IF IsNotFound(s)
    THEN Return([error |-> "Agent not found", status_code |-> 404])
    ELSE IF IsTimeoutStatus(s)
    THEN Retry(RecordError(old, [error |-> "Agent call timeout", status_code |-> 408]), delay)
    ELSE IF IsRateLimited(s)
    THEN Retry(RecordError(old, [error |-> "Rate limited", status_code |-> 429]),
               RateLimitDelay(delay))
    ELSE IF IsServerError(s)
    THEN Retry(RecordError(old, [error |-> "Server error: " \o ToString(s),
                                 status_code |-> s]), delay)
    ELSE Return(ClientError(response))

\* one pass through the try block
AttemptResult(outcome, old, delay, jsonExc) ==
    IF outcome.kind = "response"
    THEN HandleResponse(outcome, old, delay, jsonExc)
    ELSE Caught(outcome.exc, old, delay)

\* for attempt in range(max_retries + 1)
LoopContinues(a, m) == a <= m

\* mutant of ShouldSleep: the call also sleeps after its last attempt
ShouldSleep_AfterLast(a, m) == a <= m

\* if attempt < max_retries
ShouldSleep(a, m) == a < m

\* return last_error or {"error": "All retry attempts failed"}
FinalResult(err) == IF err = None THEN [error |-> "All retry attempts failed"] ELSE err

InitCall ==
    /\ max_retries \in (-1)..MaxRetriesBound
    /\ attempt = 0
    /\ retry_delay = Whole(InitialDelay)
    /\ last_error = None
    /\ pc = "post"
    /\ json_error \in JsonErrors
    /\ result = None
    /\ posts = 0
    /\ sleeps = <<>>
    /\ replies = <<>>

\* the try block of one iteration: requests.post and the classification
Attempt ==
    /\ pc = "post"
    /\ LoopContinues(attempt, max_retries)
    /\ \E outcome \in Outcomes :
         LET r == AttemptResult(outcome, last_error, retry_delay, json_error) IN
         /\ posts' = posts + 1
         /\ replies' = Append(replies, outcome)
         /\ CASE r.step = "return" ->
                   /\ pc' = "done"
                   /\ result' = r.value
                   /\ UNCHANGED <<last_error, retry_delay>>
              [] r.step = "retry" ->
                   /\ pc' = "backoff"
                   /\ last_error' = r.last_error
                   /\ retry_delay' = r.retry_delay
                   /\ UNCHANGED result
              [] OTHER ->
                   /\ pc' = "raised"
                   /\ UNCHANGED <<last_error, retry_delay, result>>
    /\ UNCHANGED <<max_retries, attempt, json_error, sleeps>>
    /\ UNCHANGED outside_call

\* the end of one iteration: the sleep before the retry, then the next index
Backoff ==
    /\ pc = "backoff"
    /\ IF ShouldSleep(attempt, max_retries)
       THEN /\ sleeps' = Append(sleeps, retry_delay)
            /\ retry_delay' = NextDelay(retry_delay)
       ELSE UNCHANGED <<sleeps, retry_delay>>
    /\ attempt' = attempt + 1
    /\ pc' = "post"
    /\ UNCHANGED <<max_retries, last_error, json_error, result, posts, replies>>
    /\ UNCHANGED outside_call

\* after the loop: all retries failed
Exhausted ==
    /\ pc = "post"
    /\ ~LoopContinues(attempt, max_retries)
    /\ result' = FinalResult(last_error)
    /\ pc' = "done"
    /\ UNCHANGED <<max_retries, attempt, retry_delay, last_error, json_error,
                   posts, sleeps, replies>>
    /\ UNCHANGED outside_call

NextCall == Attempt \/ Backoff \/ Exhausted

(***************************************************************************)
(* Properties of call_agent.  They are stated on the observations: the     *)
(* call has consumed the platform's outcomes replies[1..posts], so "the    *)
(* platform answers S" reads "replies is a prefix of S".                   *)
(***************************************************************************)
\* the call has returned or raised
Ended == pc \in {"done", "raised"}

\* outcome o is a response with status s
IsStatus(o, s) == o.kind = "response" /\ o.status_code = s

\* every outcome observed so far is a response with status s
AllStatus(s) == \A i \in 1..Len(replies) : IsStatus(replies[i], s)

\* the backoff delay in force at the i-th attempt: 1 at the first, and after
\* each sleep min(1.5 * the delay slept, 10)
DelayAt(i) ==
    IF i = 1 THEN Whole(1)
    ELSE MinOf(Times(sleeps[i - 1], 3, 2), Whole(10))

\* C1: with maxRetries = m, a platform that answers 500 on the first k
\* attempts (k < m) and 200 with a JSON body on attempt k+1 gets exactly k+1
\* attempts, and the call returns that body, unchanged, as its result: the
\* call does not end while it has seen only the 500s, and ends on the 200.
C1_RetriedSuccess ==
    /\ (Len(replies) < max_retries /\ AllStatus(500)) => ~Ended
    /\ \A b \in Bodies :
         ( /\ BodyParses(b)
           /\ Len(replies) >= 1
           /\ Len(replies) - 1 < max_retries
           /\ \A i \in 1..(Len(replies) - 1) : IsStatus(replies[i], 500)
           /\ replies[Len(replies)] = [kind |-> "response", status_code |-> 200, body |-> b] )
         => ( /\ pc = "done"
              /\ result = Json(b)
              /\ "error" \notin DOMAIN result
              /\ posts = Len(replies) )

\* two 500s, then a 200 whose body is returned
C1_Witness ==
    /\ pc = "done"
    /\ posts = 3
    /\ IsStatus(replies[1], 500) /\ IsStatus(replies[2], 500)
    /\ replies[3] = [kind |-> "response", status_code |-> 200, body |-> "object"]
    /\ result = Json("object")

\* C2: against a platform that always answers 404, a call with any
\* maxRetries >= 0 makes exactly one attempt and returns the not-found error
\* with status_code 404, without sleeping.
C2_NotFoundOnce ==
    /\ (max_retries >= 0 /\ Ended) => posts >= 1
    /\ (Len(replies) >= 1 /\ IsStatus(replies[1], 404))
       => ( /\ pc = "done"
            /\ result = [error |-> "Agent not found", status_code |-> 404]
            /\ posts = 1
            /\ Len(replies) = 1
            /\ sleeps = <<>> )

\* a call that could have retried three times ended on its first 404
C2_Witness ==
    /\ max_retries = MaxRetriesBound
    /\ pc = "done"
    /\ posts = 1
    /\ IsStatus(replies[1], 404)
    /\ result.status_code = 404

\* C3 (as claimed): every attempt that receives a 2xx status, here with a
\* JSON object as body, ends the call at once with that body as its result.
C3_Any2xxIsSuccess ==
    \A i \in 1..Len(replies) :
        ( /\ replies[i].kind = "response"
          /\ replies[i].status_code \in 200..299
          /\ BodyIsObject(replies[i].body) )
        => ( /\ i = Len(replies)
             /\ pc = "done"
             /\ result = Json(replies[i].body) )

\* C4: a call with maxRetries = m >= 0 makes at most m+1 attempts and m
\* sleeps whatever the platform answers, and it always can take a step until
\* it has ended; when every attempt gets the same retryable status s (408,
\* 429 or s >= 500) it ends only after m+1 attempts and m sleeps, with an
\* error whose status_code is s.
C4_BoundedAttempts ==
    /\ max_retries >= 0 => (posts <= max_retries + 1 /\ Len(sleeps) <= max_retries)
    /\ Len(sleeps) <= posts
    /\ pc # "raised"
    /\ ~Ended => ENABLED NextCall
    /\ \A s \in {408, 429, 500, 503} :
         (max_retries >= 0 /\ Ended /\ AllStatus(s))
         => ( /\ pc = "done"
              /\ posts = max_retries + 1
              /\ Len(sleeps) = max_retries
              /\ "error" \in DOMAIN result
              /\ result.status_code = s )

\* m+1 answers of 503 and m sleeps, m the largest modelled
C4_Witness ==
    /\ max_retries = MaxRetriesBound
    /\ pc = "done"
    /\ AllStatus(503)
    /\ posts = MaxRetriesBound + 1
    /\ Len(sleeps) = MaxRetriesBound
    /\ result.status_code = 503

\* C5: an attempt that receives a 4xx status other than 404, 408 and 429 is
\* the last one: the call returns at once, without a sleep after it, an
\* error with that status_code, whose text is the body's message when the
\* body is a JSON object ("Unknown error" when it has none) and
\* "HTTP <status>" otherwise.
C5_ClientErrorTerminal ==
    \A i \in 1..Len(replies) :
        ( /\ replies[i].kind = "response"
          /\ replies[i].status_code \in 400..499
          /\ replies[i].status_code \notin {404, 408, 429} )
        => LET s == replies[i].status_code
               b == replies[i].body
           IN  /\ i = Len(replies)
               /\ pc = "done"
               /\ posts = i
               /\ Len(sleeps) = i - 1
               /\ result.status_code = s
               /\ b = "object_message" => result.error = "peer message"
               /\ b = "object" => result.error = "Unknown error"
               /\ ~BodyIsObject(b) => result.error = "HTTP " \o ToString(s)

\* a 403 without a parsable body on a retried attempt
C5_Witness ==
    /\ pc = "done"
    /\ posts = 2
    /\ replies[2] = [kind |-> "response", status_code |-> 403, body |-> "invalid"]
    /\ result = [error |-> "HTTP 403", status_code |-> 403]
    /\ Len(sleeps) = 1

\* the error an outcome leaves behind when the attempt is retried
ErrorOfAttempt(o) == AttemptResult(o, None, Whole(1), json_error).last_error

\* C6: a call that exhausts its attempts returns the error recorded by the
\* last attempt made; it returns the generic "All retry attempts failed"
\* only when no attempt recorded an error, which is when none was made.
C6_LastErrorReturned ==
    /\ (pc = "done" /\ posts >= 1 /\ last_error # None
        /\ AttemptResult(replies[posts], None, Whole(1), json_error).step = "retry")
       => result = ErrorOfAttempt(replies[posts])
    /\ (pc = "done" /\ result = [error |-> "All retry attempts failed"])
       => (posts = 0 /\ last_error = None)

\* exhausted after a 500 followed by a connection error: the latter is returned
C6_Witness ==
    /\ pc = "done"
    /\ max_retries = 1
    /\ posts = 2
    /\ IsStatus(replies[1], 500)
    /\ replies[2] = [kind |-> "exception", exc |-> "ConnectionError"]
    /\ result = [error |-> "Connection failed", type |-> "connection_error"]

\* C7 (as claimed): no sleep between two attempts is longer than 10.
C7_NoSleepOverCap ==
    \A i \in 1..Len(sleeps) : Leq(sleeps[i], Whole(10))

\* C7 (amended): the backoff delay starts at 1, is multiplied by 1.5 after
\* each sleep and is capped at 10; the sleep after an attempt that was not
\* answered 429 is that delay, so at most 10; the sleep after a 429 is twice
\* that delay, so at most 20.
C7_BackoffSchedule ==
    /\ Leq(retry_delay, Whole(20))
    /\ (pc = "post" /\ attempt <= max_retries)
       => (retry_delay = DelayAt(attempt + 1) /\ Leq(retry_delay, Whole(10)))
    /\ \A i \in 1..Len(sleeps) :
         /\ ~IsStatus(replies[i], 429) => sleeps[i] = DelayAt(i)
         /\ ~IsStatus(replies[i], 429) => Leq(sleeps[i], Whole(10))
         /\ IsStatus(replies[i], 429) => Leq(sleeps[i], Whole(20))

\* three sleeps, the third one of 18 after a 429, and the delay cut to 10
C7_Witness ==
    /\ Len(sleeps) = 3
    /\ IsStatus(replies[3], 429)
    /\ sleeps[3] = Whole(18)
    /\ pc = "post"
    /\ attempt = max_retries
    /\ retry_delay = Whole(10)

\* C8: each attempt answered 429 doubles the retry delay before the sleep
\* that follows, the doubled delay being at most 30; when every attempt is
\* answered 429 the call returns the "Rate limited" error with status 429.
C8_RateLimitDoubling ==
    /\ \A i \in 1..Len(sleeps) :
         IsStatus(replies[i], 429)
         => ( /\ sleeps[i] = MinOf(Times(DelayAt(i), 2, 1), Whole(30))
              /\ Leq(sleeps[i], Whole(30)) )
    /\ (pc = "backoff" /\ IsStatus(replies[posts], 429))
       => retry_delay = MinOf(Times(DelayAt(posts), 2, 1), Whole(30))
    /\ (Ended /\ posts >= 1 /\ AllStatus(429))
       => result = [error |-> "Rate limited", status_code |-> 429]

\* 429 on every attempt: sleeps of 2, 6 and 18, then the rate-limit error
C8_Witness ==
    /\ pc = "done"
    /\ AllStatus(429)
    /\ sleeps = <<Whole(2), Whole(6), Whole(18)>>
    /\ result = [error |-> "Rate limited", status_code |-> 429]

\* the type tag of each exception class
TagOf(exc) ==
    CASE exc = "Timeout"          -> "timeout"
      [] exc = "ConnectionError"  -> "connection_error"
      [] exc = "RequestException" -> "request_error"
      [] OTHER                    -> "unexpected_error"

\* C9: an exception of an attempt never leaves call_agent; the attempt is
\* retried like one answered 408 or 5xx (the call goes on while attempts
\* remain and sleeps the backoff delay in force), and a call whose final
\* attempt raised returns an error carrying the type tag of that exception.
C9_ExceptionsRetried ==
    /\ pc # "raised"
    /\ \A i \in 1..Len(replies) :
         replies[i].kind = "exception"
         => ( /\ (i = Len(replies) /\ i <= max_retries) => ~Ended
              /\ i <= Len(sleeps) => sleeps[i] = DelayAt(i)
              /\ (i = Len(replies) /\ pc = "done")
                 => ( /\ posts = max_retries + 1
                      /\ "type" \in DOMAIN result
                      /\ result.type = TagOf(replies[i].exc)
                      /\ "status_code" \notin DOMAIN result ) )

\* a timeout slept on and retried, then a final attempt that raised
C9_Witness ==
    /\ pc = "done"
    /\ max_retries = 1
    /\ replies[1] = [kind |-> "exception", exc |-> "Timeout"]
    /\ replies[2] = [kind |-> "exception", exc |-> "RequestException"]
    /\ sleeps = <<Whole(1)>>
    /\ result = [error |-> "Request failed", type |-> "request_error"]

(***************************************************************************)
(* Part II.  RealtimeIdeaAgent: wait_for_collaboration_response and        *)
(* _message_processing_loop.                                               *)
(*                                                                         *)
(* Two threads run the agent's code: "main" (the user's requests) and      *)
(* "msg" (the message-processing loop, which itself waits when it handles  *)
(* a generate_ideas request that leads to a collaboration).  The platform  *)
(* keeps every message in the inbox, so each fetch delivers again what     *)
(* earlier fetches delivered.  A step holds one read or write of the state *)
(* the threads share with each other or with the platform, together with   *)
(* the thread-local code around it (the sleeps, the loop conditions); the  *)
(* locals of a call are cleared when it returns.                           *)
(***************************************************************************)
Threads == {"main", "msg"}

\* the list response_types, in its order
ResponseTypes ==
    << "validation_response:", "technical_response:", "image_response:",
       "help_response:", "validation_error:", "technical_error:",
       "image_error:", "help_error:" >>

\* self.instance_id, which the platform assigned at registration, and the
\* instance of the peer whose requests reach this agent
InstanceId == 7
PeerInstanceId == 9

\* the help types of the model: the first two branches of collaborate_with_agent
HelpTypes == {"validator", "technical"}

\* the tag a request id begins with
RequestTag(help_type) ==
    CASE help_type = "validator" -> "collab"
      [] help_type = "technical" -> "tech"
      [] help_type = "image_generator" -> "img"
      [] OTHER -> "help"

\* message_data['content'].split(':')[0], the request type handed to the wait
RequestType(help_type) ==
    CASE help_type = "validator" -> "validate_ideas"
      [] help_type = "technical" -> "technical_review"
      [] help_type = "image_generator" -> "generate_images"
      [] OTHER -> "help_request"

\* f'<tag>_{int(time.time())}_{instance_id}'
RequestId(help_type, now, instance) == <<RequestTag(help_type), now, instance>>

\* the text after a prefix: a JSON object with its request_id, or no JSON
JsonText(request_id) == [text |-> "json", request_id |-> request_id]
Garbage == [text |-> "garbage"]

\* the tag of the request ids of the requests a response prefix answers
AnsweredTag(prefix) ==
    CASE prefix \in {"validation_response:", "validation_error:"} -> "collab"
      [] prefix \in {"technical_response:", "technical_error:"} -> "tech"
      [] prefix \in {"image_response:", "image_error:"} -> "img"
      [] prefix \in {"help_response:", "help_error:"} -> "help"
      [] OTHER -> "none"

\* the two agents with a message-processing loop
AgentClasses == {"RealtimeIdeaAgent", "StandaloneValidatorAgent"}

\* the contents of the messages delivered to a StandaloneValidatorAgent: a
\* validate_ideas request, well-formed and malformed, and a request of a
\* type it does not know
ValidatorContents ==
    { [prefix |-> "validate_ideas:",
       payload |-> JsonText(RequestId("validator", 0, PeerInstanceId))],
      [prefix |-> "validate_ideas:", payload |-> Garbage],
      [prefix |-> "generate_ideas:",
       payload |-> JsonText(RequestId("help", 0, PeerInstanceId))] }

\* the contents of the messages delivered to a RealtimeIdeaAgent, as the prefix and
\* what follows it: the validator's response to a request of second 0, the
\* same malformed, the technical peer's error response to a request of
\* second 0, and a peer's generate_ideas request, well-formed and malformed
Contents ==
    { [prefix |-> "validation_response:",
       payload |-> JsonText(RequestId("validator", 0, InstanceId))],
      [prefix |-> "validation_response:", payload |-> Garbage],
      [prefix |-> "technical_error:",
       payload |-> JsonText(RequestId("technical", 0, InstanceId))],
      [prefix |-> "generate_ideas:",
       payload |-> JsonText(RequestId("help", 0, PeerInstanceId))],
      [prefix |-> "generate_ideas:", payload |-> Garbage] }

\* mutant of JsonLoads: text that is no JSON parses to an object
JsonLoads_Lenient(payload) ==
    [ok |-> TRUE,
     value |-> [request_id |-> IF payload.text = "json" THEN payload.request_id
                               ELSE <<"none", 0, 0>>]]

\* json.loads of a payload
JsonLoads(payload) ==
    IF payload.text = "json"
    THEN [ok |-> TRUE, value |-> [request_id |-> payload.request_id]]
    ELSE [ok |-> FALSE]

\* mutant of MatchesResponseType: every content matches
MatchesResponseType_Any(content) == TRUE

\* content.startswith(response_type) for some response_type of the list
MatchesResponseType(content) ==
    \E k \in 1..Len(ResponseTypes) : content.prefix = ResponseTypes[k]

\* mutant of NotProcessed: the wait and the loop do not look at the set
NotProcessed_Unchecked(id, processed) == TRUE

\* message.get('id') not in self.processed_messages
NotProcessed(id, processed) == id \notin processed

\* mutant of MarkProcessed: the id is not recorded
MarkProcessed_Forgotten(processed, id) == processed

\* self.processed_messages.add(id)
MarkProcessed(processed, id) == processed \cup {id}

\* time.sleep(2)
PollInterval == 2

\* requests.get(..., timeout=5): a GET of the inbox is answered at once or
\* takes as long as its timeout lets it
GetTimeout == 5
FetchTimes == {0, GetTimeout}

\* the agent before start_agent_service: no thread runs
WaitIdle ==
    /\ inbox = <<>>
    /\ processed_messages = {}
    /\ clock = 0
    /\ timeout = 1
    /\ agent_class = "RealtimeIdeaAgent"
    /\ wait_request = [t \in Threads |-> None]
    /\ wait_pc = [t \in Threads |-> "idle"]
    /\ wait_messages = [t \in Threads |-> <<>>]
    /\ wait_index = [t \in Threads |-> 1]
    /\ wait_elapsed = [t \in Threads |-> 0]
    /\ wait_result = [t \in Threads |-> None]
    /\ loop_pc = "stopped"
    /\ loop_messages = <<>>
    /\ loop_index = 1
    /\ returned = {}
    /\ handled = {}
    /\ replied = {}

\* no call_agent in progress
CallIdle ==
    /\ max_retries = 0
    /\ attempt = 0
    /\ retry_delay = Whole(InitialDelay)
    /\ last_error = None
    /\ pc = "idle"
    /\ json_error = "Exception"
    /\ result = None
    /\ posts = 0
    /\ sleeps = <<>>
    /\ replies = <<>>

\* the agent after start_agent_service: the loop thread runs
InitWait ==
    /\ inbox = <<>>
    /\ processed_messages = {}
    /\ clock = 0
    /\ timeout = MaxTimeout
    /\ agent_class \in AgentClasses
    /\ wait_request = [t \in Threads |-> None]
    /\ wait_pc = [t \in Threads |-> "idle"]
    /\ wait_messages = [t \in Threads |-> <<>>]
    /\ wait_index = [t \in Threads |-> 1]
    /\ wait_elapsed = [t \in Threads |-> 0]
    /\ wait_result = [t \in Threads |-> None]
    /\ loop_pc = "fetch"
    /\ loop_messages = <<>>
    /\ loop_index = 1
    /\ returned = {}
    /\ handled = {}
    /\ replied = {}

\* a peer's message reaches the inbox: a request, or a response to a request
\* of this agent that a thread waits for; the platform numbers the messages
Deliver ==
    /\ loop_pc # "stopped"
    /\ Len(inbox) < MaxMessages
    /\ \E c \in (IF agent_class = "RealtimeIdeaAgent" THEN Contents
                 ELSE ValidatorContents) :
         /\ \/ AnsweredTag(c.prefix) = "none"
            \/ \E t \in Threads :
                 /\ wait_request[t] # None
                 /\ wait_request[t].request_id[1] = AnsweredTag(c.prefix)
         /\ inbox' = Append(inbox, [id |-> Len(inbox) + 1, content |-> c])
    /\ UNCHANGED <<processed_messages, clock, timeout, agent_class, wait_locals,
                   loop_locals, observations>>
    /\ UNCHANGED outside_wait

\* the locals of thread t's wait at its start and after its return
WaitLocalsCleared(t) ==
    /\ wait_messages' = [wait_messages EXCEPT ![t] = <<>>]
    /\ wait_index' = [wait_index EXCEPT ![t] = 1]
    /\ wait_elapsed' = [wait_elapsed EXCEPT ![t] = 0]
    /\ wait_request' = [wait_request EXCEPT ![t] = None]

\* collaborate_with_agent of thread t up to its wait: the request with its
\* request_id is POSTed; on status 200 or 201 the thread calls
\* wait_for_collaboration_response (start_time = time.time()), on another
\* status or an exception collaborate_with_agent returns None
Collaborate(t) ==
    /\ wait_pc[t] = "idle"
    /\ \E help_type \in HelpTypes :
         \/ /\ wait_pc' = [wait_pc EXCEPT ![t] = "poll"]
            /\ wait_request' =
                   [wait_request EXCEPT
                      ![t] = [type |-> RequestType(help_type),
                              request_id |-> RequestId(help_type, clock, InstanceId)]]
         \/ UNCHANGED <<wait_pc, wait_request>>
    /\ wait_result' = [wait_result EXCEPT ![t] = None]
    /\ UNCHANGED <<wait_messages, wait_index, wait_elapsed>>

\* what wait_for_collaboration_response returns when its timeout has
\* passed, and what collaborate_with_agent returns when the POST of the
\* request is refused or raises
TimeoutValue == None
NotSentValue == None

\* "if collaboration_result:" of generate_ideas_with_intelligent_collaboration:
\* a non-empty dict leads to synthesize_collaborative_result, None to
\* create_independent_result
CollaborationStatus(collaboration_result) ==
    IF collaboration_result # None THEN "collaborative_success"
    ELSE "independent_success"

\* the main thread of a RealtimeIdeaAgent, serving the user, collaborates
StartWait ==
    /\ loop_pc # "stopped"
    /\ agent_class = "RealtimeIdeaAgent"
    /\ Collaborate("main")
    /\ UNCHANGED <<inbox, processed_messages, clock, timeout, agent_class,
                   loop_locals, observations>>
    /\ UNCHANGED outside_wait

\* while time.time() - start_time < timeout: requests.get(.../messages); a
\* status other than 200 or an exception of the request leads to time.sleep(2).
\* The time of an iteration, of its GET and its sleep, is added to
\* wait_elapsed where the iteration ends, which is where the code reads it.
WaitFetch(t) ==
    /\ wait_pc[t] = "poll"
    /\ wait_elapsed[t] < timeout
    /\ \/ /\ wait_messages' = [wait_messages EXCEPT ![t] = inbox]
          /\ wait_index' = [wait_index EXCEPT ![t] = 1]
          /\ wait_pc' = [wait_pc EXCEPT ![t] = "scan"]
          /\ UNCHANGED wait_elapsed
       \/ /\ \E d \in FetchTimes :
               wait_elapsed' = [wait_elapsed EXCEPT ![t] = @ + d + PollInterval]
          /\ UNCHANGED <<wait_pc, wait_messages, wait_index>>
    /\ UNCHANGED <<inbox, processed_messages, clock, timeout, agent_class,
                   wait_request, wait_result, loop_locals, observations>>
    /\ UNCHANGED outside_wait

\* the while condition fails: return None
WaitTimeout(t) ==
    /\ wait_pc[t] = "poll"
    /\ ~(wait_elapsed[t] < timeout)
    /\ wait_pc' = [wait_pc EXCEPT ![t] = "idle"]
    /\ wait_result' = [wait_result EXCEPT ![t] = None]
    /\ WaitLocalsCleared(t)
    /\ UNCHANGED <<inbox, processed_messages, clock, timeout, agent_class,
                   loop_locals, observations>>
    /\ UNCHANGED outside_wait

\* for message in messages: the test of processed_messages and of the
\* prefix; after the last message, time.sleep(2)
WaitScan(t) ==
    /\ wait_pc[t] = "scan"
    /\ IF wait_index[t] > Len(wait_messages[t])
       THEN /\ wait_pc' = [wait_pc EXCEPT ![t] = "poll"]
            /\ \E d \in FetchTimes :
                 wait_elapsed' = [wait_elapsed EXCEPT ![t] = @ + d + PollInterval]
            /\ UNCHANGED wait_index
       ELSE LET message == wait_messages[t][wait_index[t]] IN
            IF /\ NotProcessed(message.id, processed_messages)
               /\ MatchesResponseType(message.content)
            THEN /\ wait_pc' = [wait_pc EXCEPT ![t] = "add"]
                 /\ UNCHANGED <<wait_index, wait_elapsed>>
            ELSE /\ wait_index' = [wait_index EXCEPT ![t] = @ + 1]
                 /\ UNCHANGED <<wait_pc, wait_elapsed>>
    /\ UNCHANGED <<inbox, processed_messages, clock, timeout, agent_class,
                   wait_request, wait_messages, wait_result, loop_locals,
                   observations>>
    /\ UNCHANGED outside_wait

\* processed_messages.add(id), json.loads, return response_data or None
WaitConsume(t) ==
    /\ wait_pc[t] = "add"
    /\ LET message == wait_messages[t][wait_index[t]]
           parsed == JsonLoads(message.content.payload)
       IN  /\ processed_messages' = MarkProcessed(processed_messages, message.id)
           /\ wait_result' = [wait_result EXCEPT
                                 ![t] = IF parsed.ok THEN parsed.value ELSE None]
           /\ returned' = returned \cup {message.id}
    /\ wait_pc' = [wait_pc EXCEPT ![t] = "idle"]
    /\ WaitLocalsCleared(t)
    /\ UNCHANGED <<inbox, clock, timeout, agent_class, loop_locals, handled, replied>>
    /\ UNCHANGED outside_wait

\* while self.running: requests.get(.../messages); a status other than 200
\* or an exception leads to time.sleep(self.message_check_interval)
LoopFetch ==
    /\ loop_pc = "fetch"
    /\ \/ /\ loop_messages' = inbox
          /\ loop_index' = 1
          /\ loop_pc' = "scan"
       \/ UNCHANGED loop_locals
    /\ UNCHANGED <<inbox, processed_messages, clock, timeout, agent_class,
                   wait_locals, observations>>
    /\ UNCHANGED outside_wait

\* for message in messages: if message_id not in self.processed_messages;
\* after the last message, time.sleep(self.message_check_interval)
LoopScan ==
    /\ loop_pc = "scan"
    /\ IF loop_index > Len(loop_messages)
       THEN /\ loop_pc' = "fetch"
            /\ loop_messages' = <<>>
            /\ loop_index' = 1
       ELSE IF NotProcessed(loop_messages[loop_index].id, processed_messages)
            THEN /\ loop_pc' = "handle"
                 /\ UNCHANGED <<loop_messages, loop_index>>
            ELSE /\ loop_index' = loop_index + 1
                 /\ UNCHANGED <<loop_pc, loop_messages>>
    /\ UNCHANGED <<inbox, processed_messages, clock, timeout, agent_class,
                   wait_locals, observations>>
    /\ UNCHANGED outside_wait

\* RealtimeIdeaAgent.handle_incoming_message(message): a generate_ideas
\* request whose payload parses generates ideas, either with a collaboration
\* and its wait, or independently, and then POSTs the reply; json.loads of a
\* malformed payload raises, which the handler catches
HandleIncomingMessage(message) ==
    IF /\ message.content.prefix = "generate_ideas:"
       /\ JsonLoads(message.content.payload).ok
    THEN \/ /\ Collaborate("msg")
            /\ loop_pc' = "waiting"
            /\ UNCHANGED replied
         \/ /\ loop_pc' = "add"
            /\ replied' = replied \cup {message.id}
            /\ UNCHANGED wait_locals
    ELSE /\ loop_pc' = "add"
         /\ UNCHANGED <<wait_locals, replied>>

\* StandaloneValidatorAgent.handle_validation_request(message): a
\* validate_ideas request whose payload parses is validated and the reply
\* POSTed; an exception of a handler is caught
HandleValidationRequest(message) ==
    /\ loop_pc' = "add"
    /\ replied' = IF /\ message.content.prefix = "validate_ideas:"
                     /\ JsonLoads(message.content.payload).ok
                  THEN replied \cup {message.id}
                  ELSE replied
    /\ UNCHANGED wait_locals

\* the loop passes the message to the handler of its class
LoopHandle ==
    /\ loop_pc = "handle"
    /\ LET message == loop_messages[loop_index] IN
         /\ handled' = handled \cup {message.id}
         /\ IF agent_class = "RealtimeIdeaAgent"
            THEN HandleIncomingMessage(message)
            ELSE HandleValidationRequest(message)
    /\ UNCHANGED <<inbox, processed_messages, clock, timeout, agent_class,
                   loop_messages, loop_index, returned>>
    /\ UNCHANGED outside_wait

\* the wait of the handler has returned: send_response_to_agent POSTs the reply
LoopResume ==
    /\ loop_pc = "waiting"
    /\ wait_pc["msg"] = "idle"
    /\ loop_pc' = "add"
    /\ replied' = replied \cup {loop_messages[loop_index].id}
    /\ UNCHANGED <<inbox, processed_messages, clock, timeout, agent_class,
                   wait_locals, loop_messages, loop_index, returned, handled>>
    /\ UNCHANGED outside_wait

\* self.processed_messages.add(message_id), then the next message
LoopAdd ==
    /\ loop_pc = "add"
    /\ processed_messages' =
           MarkProcessed(processed_messages, loop_messages[loop_index].id)
    /\ loop_index' = loop_index + 1
    /\ loop_pc' = "scan"
    /\ UNCHANGED <<inbox, clock, timeout, agent_class, wait_locals, loop_messages,
                   observations>>
    /\ UNCHANGED outside_wait

NextWait ==
    \/ Deliver
    \/ StartWait
    \/ \E t \in Threads : WaitFetch(t)
    \/ \E t \in Threads : WaitTimeout(t)
    \/ \E t \in Threads : WaitScan(t)
    \/ \E t \in Threads : WaitConsume(t)
    \/ LoopFetch
    \/ LoopScan
    \/ LoopHandle
    \/ LoopResume
    \/ LoopAdd

(***************************************************************************)
(* Part III.  collaborate_with_agent generates its request id from the     *)
(* help type, the clock second and the instance id, in whatever thread     *)
(* calls it.                                                               *)
(***************************************************************************)
\* no request id generated yet
IdsIdle == request_ids = <<>>

\* time.time() passes a second boundary
Tick ==
    /\ clock < MaxClock
    /\ clock' = clock + 1
    /\ UNCHANGED request_ids
    /\ UNCHANGED outside_ids

\* thread t calls collaborate_with_agent, which generates the request id
NewRequestId(t) ==
    /\ Len(request_ids) < MaxRequests
    /\ \E help_type \in HelpTypes :
         request_ids' = Append(request_ids,
                               [thread |-> t, help_type |-> help_type,
                                request_id |-> RequestId(help_type, clock, InstanceId)])
    /\ UNCHANGED clock
    /\ UNCHANGED outside_ids

NextIds ==
    \/ Tick
    \/ \E t \in Threads : NewRequestId(t)

(***************************************************************************)
(* The specifications.                                                     *)
(***************************************************************************)
(***************************************************************************)
(* Part IV.  The heartbeat loops.                                          *)
(***************************************************************************)
\* the classes that send heartbeats
HeartbeatAgents ==
    {"PlatformClient", "RealtimeIdeaAgent", "StandaloneValidatorAgent",
     "TaskManagerAgent"}

\* the classes whose loop is "while self.running"
FlaggedAgents == {"RealtimeIdeaAgent", "StandaloneValidatorAgent"}

\* what requests.post of /api/webhook/ping can do: answer 200, answer a
\* status that is not 2xx, or raise ConnectionError or Timeout
PingOutcomes == {"200", "500", "refused", "timeout"}

\* requests.post raises
PingRaises(outcome) == outcome \in {"refused", "timeout"}

\* the heartbeat failed
PingFailed(outcome) == outcome # "200"

\* mutant of PingCaught: the handler lets the exception pass
PingCaught_Never(agent, outcome) == FALSE

\* the handler around the POST catches what it raises: "except Exception"
\* in ping and send_ping, a bare "except" in the two loops
PingCaught(agent, outcome) ==
    CASE agent \in {"PlatformClient", "TaskManagerAgent"} -> TRUE
      [] agent \in FlaggedAgents -> TRUE

\* time.sleep(30) of the loops (self.health_interval = 30), on the model's scale
HealthInterval == 2

\* the outcome appended to the log, which keeps the last MaxPings
Logged(log, outcome) ==
    IF Len(log) < MaxPings THEN Append(log, outcome)
    ELSE Append(Tail(log), outcome)

\* no heartbeat loop runs
HbIdle ==
    /\ hb_agent = "PlatformClient"
    /\ hb_registered = FALSE
    /\ hb_running = FALSE
    /\ hb_pc = "off"
    /\ hb_slept = 0
    /\ hb_log = <<>>

\* the loop has been entered: main continues after a failed register, the
\* three other classes start the loop only after a registration; the loop of
\* TaskManagerAgent.start sleeps first
InitHb ==
    /\ hb_agent \in HeartbeatAgents
    /\ hb_registered \in (IF hb_agent = "PlatformClient" THEN BOOLEAN ELSE {TRUE})
    /\ hb_running = TRUE
    /\ hb_pc = IF hb_agent = "TaskManagerAgent" THEN "sleep" ELSE "send"
    /\ hb_slept = 0
    /\ hb_log = <<>>

\* one heartbeat: "if not self.instance_id: return", else the POST inside
\* its try; an exception that is not caught leaves the loop
HeartbeatSend ==
    /\ hb_pc = "send"
    /\ IF ~hb_registered
       THEN /\ hb_pc' = "sleep"
            /\ UNCHANGED hb_log
       ELSE \E outcome \in PingOutcomes :
              /\ hb_log' = Logged(hb_log, outcome)
              /\ hb_pc' = IF PingRaises(outcome) /\ ~PingCaught(hb_agent, outcome)
                          THEN "dead" ELSE "sleep"
    /\ hb_slept' = 0
    /\ UNCHANGED <<hb_agent, hb_registered, hb_running>>
    /\ UNCHANGED outside_hb

\* time.sleep passes
HeartbeatSleep ==
    /\ hb_pc = "sleep"
    /\ hb_slept < HealthInterval
    /\ hb_slept' = hb_slept + 1
    /\ UNCHANGED <<hb_agent, hb_registered, hb_running, hb_pc, hb_log>>
    /\ UNCHANGED outside_hb

\* time.sleep returns and the loop tests its condition
HeartbeatWake ==
    /\ hb_pc = "sleep"
    /\ hb_slept = HealthInterval
    /\ hb_pc' = IF hb_running THEN "send" ELSE "exited"
    /\ UNCHANGED <<hb_agent, hb_registered, hb_running, hb_slept, hb_log>>
    /\ UNCHANGED outside_hb

\* stop(): self.running = False
HeartbeatStop ==
    /\ hb_agent \in FlaggedAgents
    /\ hb_running
    /\ hb_pc \in {"send", "sleep"}
    /\ hb_running' = FALSE
    /\ UNCHANGED <<hb_agent, hb_registered, hb_pc, hb_slept, hb_log>>
    /\ UNCHANGED outside_hb

\* the steps of the loop's own thread
HeartbeatStep == HeartbeatSend \/ HeartbeatSleep \/ HeartbeatWake

NextHb == HeartbeatSend \/ HeartbeatSleep \/ HeartbeatWake \/ HeartbeatStop

(***************************************************************************)
(* Part V.  Peer discovery.                                                *)
(***************************************************************************)
\* the ids of the instances the platform knows: this agent's and two peers'
InstanceIds == {InstanceId, 8, PeerInstanceId}

\* the values of an instance's status
InstanceStatuses == {"running", "available", "stopped"}

\* an instance as /api/instances lists it
Instances == [id : InstanceIds, status : InstanceStatuses]

\* the empty dict
EmptyDict == [id \in {} |-> None]

\* d[key] = value of a dict
DictSet(d, key, value) ==
    [k \in DOMAIN d \cup {key} |-> IF k = key THEN value ELSE d[k]]

\* mutant of IsRunningPeer: every listed instance is kept
IsRunningPeer_Any(instance, self_id) == TRUE

\* instance.get('status') == 'running' and instance.get('id') != self.instance_id
IsRunningPeer(instance, self_id) ==
    instance.status = "running" /\ instance.id # self_id

\* new_agents after "for instance in instances" has run over the first n
RECURSIVE NewAgentsUpTo(_, _, _)
NewAgentsUpTo(instances, n, self_id) ==
    IF n = 0 THEN EmptyDict
    ELSE LET before == NewAgentsUpTo(instances, n - 1, self_id) IN
         IF IsRunningPeer(instances[n], self_id)
         THEN DictSet(before, instances[n].id, instances[n])
         ELSE before

NewAgents(instances, self_id) == NewAgentsUpTo(instances, Len(instances), self_id)

\* mutant of RefreshedCache: the new peers are merged into the old cache
RefreshedCache_Merged(cache, instances, self_id) ==
    LET new_agents == NewAgents(instances, self_id) IN
    [k \in DOMAIN cache \cup DOMAIN new_agents |->
        IF k \in DOMAIN new_agents THEN new_agents[k] ELSE cache[k]]

\* self.available_agents = new_agents
RefreshedCache(cache, instances, self_id) == NewAgents(instances, self_id)

\* how a GET of /api/instances ends: 200 with the list, another status, an
\* exception of requests, or a 200 whose body response.json() rejects
FetchOutcomes == {"200", "500", "raised", "bad_json"}

\* instance_id != self.instance_id and status in valid_statuses
IsValidTarget(instance, self_id) ==
    instance.id # self_id /\ instance.status \in {"running", "available"}

\* the first instance of the list that is a valid target, or None
RECURSIVE FirstTarget(_, _, _)
FirstTarget(instances, k, self_id) ==
    IF k > Len(instances) THEN None
    ELSE IF IsValidTarget(instances[k], self_id) THEN instances[k]
    ELSE FirstTarget(instances, k + 1, self_id)

\* the list without its k-th element
Without(list, k) == SubSeq(list, 1, k - 1) \o SubSeq(list, k + 1, Len(list))

\* no discovery runs
DiscIdle ==
    /\ platform_list = <<>>
    /\ available_agents = EmptyDict
    /\ disc_pc = "off"
    /\ disc_previous = EmptyDict
    /\ disc_status = "none"
    /\ target_instance = None

\* a registered agent whose discovery loop has been started
InitDisc ==
    /\ platform_list = <<>>
    /\ available_agents = EmptyDict
    /\ disc_pc = "fetch"
    /\ disc_previous = EmptyDict
    /\ disc_status = "none"
    /\ target_instance = None

\* the platform's list changes: an instance appears, disappears or changes
\* its status
PlatformChange ==
    /\ disc_pc # "off"
    /\ \/ /\ Len(platform_list) < MaxInstances
          /\ \E instance \in Instances : platform_list' = Append(platform_list, instance)
       \/ \E k \in 1..Len(platform_list) : platform_list' = Without(platform_list, k)
       \/ \E k \in 1..Len(platform_list), status \in InstanceStatuses :
            /\ status # platform_list[k].status
            /\ platform_list' = [platform_list EXCEPT ![k].status = status]
    /\ UNCHANGED <<available_agents, disc_pc, disc_previous, disc_status,
                   target_instance>>
    /\ UNCHANGED outside_disc

\* one refresh cycle of _agent_discovery_loop up to its time.sleep
DiscoveryRefresh ==
    /\ disc_pc = "fetch"
    /\ \E outcome \in FetchOutcomes :
         /\ disc_status' = outcome
         /\ available_agents' =
                IF outcome = "200"
                THEN RefreshedCache(available_agents, platform_list, InstanceId)
                ELSE available_agents
    /\ disc_previous' = available_agents
    /\ disc_pc' = "sleep"
    /\ UNCHANGED <<platform_list, target_instance>>
    /\ UNCHANGED outside_disc

\* time.sleep(self.agent_discovery_interval) returns
DiscoverySleep ==
    /\ disc_pc = "sleep"
    /\ disc_pc' = "fetch"
    /\ UNCHANGED <<platform_list, available_agents, disc_previous, disc_status,
                   target_instance>>
    /\ UNCHANGED outside_disc

\* test_real_messaging: get_agent_instances (the list, or [] when the GET
\* fails) and the choice of the target
TestRealMessaging ==
    /\ disc_pc # "off"
    /\ \E outcome \in FetchOutcomes :
         LET instances == IF outcome = "200" THEN platform_list ELSE <<>> IN
         target_instance' = FirstTarget(instances, 1, InstanceId)
    /\ UNCHANGED <<platform_list, available_agents, disc_pc, disc_previous,
                   disc_status>>
    /\ UNCHANGED outside_disc

NextDisc == PlatformChange \/ DiscoveryRefresh \/ DiscoverySleep \/ TestRealMessaging

(***************************************************************************)
(* Part VI.  PlatformClient.find_agents                                    *)
(***************************************************************************)
\* what requests.get of /api/agents/discover and response.json() can do:
\* 200 with a JSON object, 200 with a body that is no JSON object, 404, a
\* server error, another status, or one of the exceptions of requests
DiscoverOutcomes ==
    {"200", "200_bad_json", "404", "500", "503", "400", "Timeout",
     "ConnectionError", "RequestException"}

\* the agents a 200 answers with
FoundAgents == <<"billing-agent">>

\* mutant of DiscoverBranch: a 404 is treated as a server error
DiscoverBranch_Retry404(outcome) ==
    CASE outcome = "200" -> "return_agents"
      [] outcome \in {"404", "500", "503"} -> "continue"
      [] outcome = "400" -> "return_empty"
      [] outcome = "Timeout" -> "except_timeout"
      [] outcome = "ConnectionError" -> "except_connection"
      [] outcome \in {"200_bad_json", "RequestException"} -> "except_exception"

\* the branch of the loop body an outcome takes
DiscoverBranch(outcome) ==
    CASE outcome = "200" -> "return_agents"
      [] outcome = "404" -> "return_empty"
      [] outcome \in {"500", "503"} -> "continue"
      [] outcome = "400" -> "return_empty"
      [] outcome = "Timeout" -> "except_timeout"
      [] outcome = "ConnectionError" -> "except_connection"
      [] outcome \in {"200_bad_json", "RequestException"} -> "except_exception"

\* the delay a branch sleeps when attempts remain, in half seconds:
\* 1 * (attempt + 1), 0.5, 1, 0.5
DiscoverDelay(branch, a) ==
    CASE branch = "continue" -> 2 * (a + 1)
      [] branch = "except_timeout" -> 1
      [] branch = "except_connection" -> 2
      [] branch = "except_exception" -> 1

\* no find_agents call runs
FaIdle ==
    /\ fa_max_retries = 0
    /\ fa_attempt = 0
    /\ fa_pc = "off"
    /\ fa_result = None
    /\ fa_replies = <<>>
    /\ fa_sleeps = <<>>

\* find_agents(capability, exclude_self, max_retries) has been called
InitFa ==
    /\ fa_max_retries \in 0..MaxRetriesBound
    /\ fa_attempt = 0
    /\ fa_pc = "get"
    /\ fa_result = None
    /\ fa_replies = <<>>
    /\ fa_sleeps = <<>>

\* one pass of the loop body: the GET, the branch on its outcome, the sleep,
\* and after the last pass the return []
FindAttempt ==
    /\ fa_pc = "get"
    /\ \E outcome \in DiscoverOutcomes :
         LET branch == DiscoverBranch(outcome) IN
         /\ fa_replies' = Append(fa_replies, outcome)
         /\ IF branch = "return_agents"
            THEN /\ fa_result' = FoundAgents
                 /\ fa_pc' = "done"
                 /\ UNCHANGED <<fa_attempt, fa_sleeps>>
            ELSE IF branch = "return_empty"
            THEN /\ fa_result' = <<>>
                 /\ fa_pc' = "done"
                 /\ UNCHANGED <<fa_attempt, fa_sleeps>>
            ELSE IF fa_attempt < fa_max_retries
            THEN /\ fa_sleeps' = Append(fa_sleeps, DiscoverDelay(branch, fa_attempt))
                 /\ fa_attempt' = fa_attempt + 1
                 /\ UNCHANGED <<fa_result, fa_pc>>
            ELSE /\ fa_result' = <<>>
                 /\ fa_pc' = "done"
                 /\ UNCHANGED <<fa_attempt, fa_sleeps>>
    /\ UNCHANGED fa_max_retries
    /\ UNCHANGED outside_fa

NextFa == FindAttempt

(***************************************************************************)
(* Part VII.  Registration.                                                *)
(***************************************************************************)
\* Python's True and False as returned values
True == [bool |-> TRUE]
False == [bool |-> FALSE]

\* the classes that register with register_with_platform
RegisteringAgents ==
    {"RealtimeIdeaAgent", "StandaloneValidatorAgent", "TaskManagerAgent"}

\* how the GET of /api/agents ends: 200 with agents, 200 with none, 200 with
\* a body that is no JSON object, another status, or an exception
ListingOutcomes == {"200_agents", "200_no_agents", "200_bad_json", "500", "raised"}

\* mutant of ListingUsable: every answer of status 200 is taken to list agents
ListingUsable_Any200(listing) ==
    listing \in {"200_agents", "200_no_agents", "200_bad_json"}

\* the listing passes "status_code != 200", response.json() and "if not agents"
ListingUsable(listing) == listing = "200_agents"

\* how the POST of /api/webhook/register ends: a status with its body, or an
\* exception; a body is the full object, one without 'instance', one without
\* 'security', or no JSON
RegisterStatuses == {200, 201, 400, 500}
RegisterBodies == {"full", "no_instance", "no_security", "bad_json"}
RegisterReplies ==
    [status : RegisterStatuses, body : RegisterBodies] \cup {[raised |-> TRUE]}

\* the id and the key the platform hands out, and the key of the environment
NewInstanceId == [id |-> InstanceId]
NewApiKey == [key |-> "platform-key"]
EnvApiKey == [key |-> "env-key"]

\* what the branch "status_code in [200, 201]" does with a body: the fields
\* as they are when register_with_platform returns, and what it returns.
\* The network agents index result['instance']['id'] and then
\* result['security']['api_key']; TaskManagerAgent uses .get with defaults
\* and keeps its own key
Registered(agent, body, old_id, old_key) ==
    IF body = "bad_json"
    THEN [instance_id |-> old_id, api_key |-> old_key, result |-> False]
    ELSE IF agent = "TaskManagerAgent"
    THEN [instance_id |-> IF body = "no_instance" THEN None ELSE NewInstanceId,
          api_key |-> old_key, result |-> True]
    ELSE CASE body = "full" ->
                [instance_id |-> NewInstanceId, api_key |-> NewApiKey, result |-> True]
           [] body = "no_instance" ->
                [instance_id |-> old_id, api_key |-> old_key, result |-> False]
           [] body = "no_security" ->
                [instance_id |-> NewInstanceId, api_key |-> old_key, result |-> False]

\* no registration runs
RegIdle ==
    /\ reg_agent = "RealtimeIdeaAgent"
    /\ reg_pc = "off"
    /\ instance_id = None
    /\ api_key = None
    /\ running = FALSE
    /\ reg_result = None
    /\ reg_listing = "none"
    /\ reg_reply = None
    /\ reg_requests = <<>>

\* the agent after __init__, its service start called: the network agents
\* have no key, TaskManagerAgent has os.getenv's
InitReg ==
    /\ reg_agent \in RegisteringAgents
    /\ reg_pc = "list"
    /\ instance_id = None
    /\ api_key \in (IF reg_agent = "TaskManagerAgent" THEN {None, EnvApiKey} ELSE {None})
    /\ running = FALSE
    /\ reg_result = None
    /\ reg_listing = "none"
    /\ reg_reply = None
    /\ reg_requests = <<>>

\* register_with_platform up to the POST: the GET of /api/agents and its tests
RegisterList ==
    /\ reg_pc = "list"
    /\ \E listing \in ListingOutcomes :
         /\ reg_listing' = listing
         /\ IF ListingUsable(listing)
            THEN /\ reg_pc' = "post"
                 /\ UNCHANGED reg_result
            ELSE /\ reg_pc' = "returned"
                 /\ reg_result' = False
    /\ reg_requests' = Append(reg_requests, "GET /api/agents")
    /\ UNCHANGED <<reg_agent, instance_id, api_key, running, reg_reply>>
    /\ UNCHANGED outside_reg

\* the POST of /api/webhook/register and what follows it
RegisterPost ==
    /\ reg_pc = "post"
    /\ \E reply \in RegisterReplies :
         /\ reg_reply' = reply
         /\ IF reply = [raised |-> TRUE] \/ reply.status \notin {200, 201}
            THEN /\ reg_result' = False
                 /\ UNCHANGED <<instance_id, api_key>>
            ELSE LET after == Registered(reg_agent, reply.body, instance_id, api_key) IN
                 /\ instance_id' = after.instance_id
                 /\ api_key' = after.api_key
                 /\ reg_result' = after.result
    /\ reg_pc' = "returned"
    /\ reg_requests' = Append(reg_requests, "POST /api/webhook/register")
    /\ UNCHANGED <<reg_agent, running, reg_listing>>
    /\ UNCHANGED outside_reg

\* start_agent_service, start_validator_service and start after
\* register_with_platform has returned
StartService ==
    /\ reg_pc = "returned"
    /\ IF reg_result = True
       THEN /\ running' = TRUE
            /\ reg_pc' = "started"
       ELSE /\ running' = FALSE
            /\ reg_pc' = "not_started"
    /\ UNCHANGED <<reg_agent, instance_id, api_key, reg_result, reg_listing,
                   reg_reply, reg_requests>>
    /\ UNCHANGED outside_reg

NextReg == RegisterList \/ RegisterPost \/ StartService

(***************************************************************************)
(* Part VIII.  StandaloneValidatorAgent: the replies to one request.       *)
(***************************************************************************)
\* the request prefixes handle_validation_request dispatches on, and one it
\* does not know
RequestKinds == {"validate_ideas", "fact_check", "help_request"}
MessageKinds == RequestKinds \cup {"status_update"}

\* where a message names its sender: the field from_instance_id, the field
\* from as an id, the field from as a dict with instance_id, the metadata's
\* sender_instance_id, or nowhere
SenderFields == {"from_instance_id", "from", "from_dict", "metadata", "nowhere"}

\* what follows the prefix: a JSON object with a request_id, one without, one
\* whose 'problem' (or 'claim', 'request') is a number so that the slice
\* problem[:80] raises TypeError, or text that is no JSON
RequestPayloads == {"json", "json_no_id", "json_unusable", "garbage"}

\* the request_id the sender put into the payload
SentRequestId == RequestId("validator", 0, PeerInstanceId)

\* the instance that sent the request
Sender == [instance_id |-> PeerInstanceId]

\* the messages a validator is handed
ValidatorMessages ==
    [kind : MessageKinds, sender_field : SenderFields, payload : RequestPayloads]

\* from_agent of the three handlers: handle_idea_validation_request looks
\* at from_instance_id, from and the metadata, the two others at from and
\* from_instance_id; None when the message names no sender there
FromAgent(message) ==
    IF message.sender_field \in {"from_instance_id", "from", "from_dict"}
    THEN Sender
    ELSE IF message.sender_field = "metadata" /\ message.kind = "validate_ideas"
    THEN Sender
    ELSE None

\* message.get('from_instance_id'), the addressee of the error replies
FromInstanceId(message) ==
    IF message.sender_field = "from_instance_id" THEN Sender ELSE None

\* request_data.get('request_id', ''), the empty string as the empty sequence
RequestIdOf(payload) == IF payload = "json_no_id" THEN <<>> ELSE SentRequestId

\* the response type and the error type of a request kind
ResponseTypeOf(kind) ==
    CASE kind = "validate_ideas" -> "validation_response"
      [] kind = "fact_check" -> "fact_check_response"
      [] kind = "help_request" -> "help_response"

ErrorTypeOf(kind) ==
    CASE kind = "validate_ideas" -> "validation_error"
      [] kind = "fact_check" -> "fact_check_error"
      [] kind = "help_request" -> "help_error"

\* the messages one of the three handlers POSTs: none when no sender is
\* found; when json.loads raises, the except block reads request_data, which
\* is not bound yet, and the UnboundLocalError leaves the handler before
\* send_error_response is called; when the work after json.loads raises, the
\* error reply goes to message.get('from_instance_id'); else the response
\* goes to from_agent
HandlerReplies(message) ==
    IF FromAgent(message) = None THEN <<>>
    ELSE IF message.payload = "garbage" THEN <<>>
    ELSE IF message.payload = "json_unusable"
    THEN << [to |-> FromInstanceId(message), type |-> ErrorTypeOf(message.kind),
             request_id |-> RequestIdOf(message.payload)] >>
    ELSE << [to |-> FromAgent(message), type |-> ResponseTypeOf(message.kind),
             request_id |-> RequestIdOf(message.payload)] >>

\* no validator handles a request
ValIdle ==
    /\ val_pc = "off"
    /\ val_message = None
    /\ val_replies = <<>>

\* the validator's message loop runs
InitVal ==
    /\ val_pc = "receive"
    /\ val_message = None
    /\ val_replies = <<>>

\* the loop passes an unprocessed message to handle_validation_request
ValidatorReceive ==
    /\ val_pc \in {"receive", "handled"}
    /\ val_message' \in ValidatorMessages
    /\ val_replies' = <<>>
    /\ val_pc' = "handle"
    /\ UNCHANGED outside_val

\* handle_validation_request: the dispatch on the prefix and the handler;
\* an exception that leaves the handler is caught and printed
ValidatorHandle ==
    /\ val_pc = "handle"
    /\ val_replies' = IF val_message.kind \in RequestKinds
                      THEN HandlerReplies(val_message)
                      ELSE <<>>
    /\ val_pc' = "handled"
    /\ UNCHANGED val_message
    /\ UNCHANGED outside_val

NextVal == ValidatorReceive \/ ValidatorHandle

(***************************************************************************)
(* Part IX.  CustomerSupportAgent.handle_billing_inquiry                   *)
(***************************************************************************)
\* the inquiry types process_customer_inquiry routes to the billing handler
BillingInquiryTypes == {"billing", "payment", "refund", "invoice", "subscription"}

\* the method of the billing agent an inquiry type is passed to
BillingMethod(type) ==
    CASE type = "refund" -> "process_refund_request"
      [] type = "payment" -> "handle_payment_issue"
      [] type = "invoice" -> "handle_invoice_inquiry"
      [] type = "subscription" -> "handle_subscription_inquiry"
      [] OTHER -> "handle_general_billing"

\* what call_agent returns: a result, a dict with an error, an empty dict,
\* or None
AgentResponses == {"result", "error", "empty", "none"}

\* "response and not response.get('error')"
ResponseSucceeded(response) == response = "result"

\* the agents discovery returns, in its order
DiscoveredAgents(n) == [k \in 1..n |-> [instance_id |-> k]]

\* len(billing_agents[:3])
TriedCount(agents) == IF Len(agents) < 3 THEN Len(agents) ELSE 3

\* mutant of IsLastAttempt: the index is compared with the whole list
IsLastAttempt_Unsliced(i, agents) == i = Len(agents) - 1

\* i == len(billing_agents[:3]) - 1
IsLastAttempt(i, agents) == i = TriedCount(agents) - 1

\* the two results of the handler
CompletedResult(agent) ==
    [status |-> "completed", handled_by |-> "billing_agent", agent |-> agent]
ManualResult == [status |-> "manual_handling", requires_human_review |-> TRUE]

\* no billing inquiry is handled
BillIdle ==
    /\ inquiry_type = "billing"
    /\ billing_agents = None
    /\ bill_pc = "off"
    /\ bill_i = 0
    /\ bill_calls = <<>>
    /\ bill_result = None

\* handle_billing_inquiry(inquiry_data, inquiry_type) has been called
InitBill ==
    /\ inquiry_type \in BillingInquiryTypes
    /\ billing_agents = None
    /\ bill_pc = "find"
    /\ bill_i = 0
    /\ bill_calls = <<>>
    /\ bill_result = None

\* billing_agents = self.find_agents("billing"); without agents the manual
\* handling is returned
BillFind ==
    /\ bill_pc = "find"
    /\ \E n \in 0..MaxAgents :
         /\ billing_agents' = DiscoveredAgents(n)
         /\ IF n = 0
            THEN /\ bill_result' = ManualResult
                 /\ bill_pc' = "returned"
            ELSE /\ bill_pc' = "call"
                 /\ UNCHANGED bill_result
    /\ UNCHANGED <<inquiry_type, bill_i, bill_calls>>
    /\ UNCHANGED outside_bill

\* one pass of "for i, agent in enumerate(billing_agents[:3])": the call of
\* the agent and the branch on its response; when the loop has no agent
\* left the function ends without a return statement
BillCall ==
    /\ bill_pc = "call"
    /\ IF bill_i >= TriedCount(billing_agents)
       THEN /\ bill_result' = [returned_none |-> TRUE]
            /\ bill_pc' = "returned"
            /\ UNCHANGED <<bill_i, bill_calls>>
       ELSE \E response \in AgentResponses :
              LET agent == billing_agents[bill_i + 1] IN
              /\ bill_calls' = Append(bill_calls,
                                      [agent |-> agent,
                                       method |-> BillingMethod(inquiry_type),
                                       response |-> response])
              /\ IF ResponseSucceeded(response)
                 THEN /\ bill_result' = CompletedResult(agent)
                      /\ bill_pc' = "returned"
                      /\ UNCHANGED bill_i
                 ELSE IF IsLastAttempt(bill_i, billing_agents)
                 THEN /\ bill_result' = ManualResult
                      /\ bill_pc' = "returned"
                      /\ UNCHANGED bill_i
                 ELSE /\ bill_i' = bill_i + 1
                      /\ UNCHANGED <<bill_result, bill_pc>>
    /\ UNCHANGED <<inquiry_type, billing_agents>>
    /\ UNCHANGED outside_bill

NextBill == BillFind \/ BillCall

\* Parts IV and later before they start
LaterIdle == HbIdle /\ DiscIdle /\ FaIdle /\ RegIdle /\ ValIdle /\ BillIdle

vars == <<vars_call, vars_wait, vars_ids, vars_later>>

\* one call of call_agent
Init == InitCall /\ WaitIdle /\ IdsIdle /\ LaterIdle

Next == NextCall

Spec == Init /\ [][Next]_vars

\* the running agent: the waits and the message loop
WaitInit == CallIdle /\ InitWait /\ IdsIdle /\ LaterIdle

WaitSpec == WaitInit /\ [][NextWait]_vars

\* the request ids of a running agent
IdInit == CallIdle /\ InitWait /\ IdsIdle /\ LaterIdle

IdSpec == IdInit /\ [][NextIds]_vars

\* a heartbeat loop; its thread is scheduled again and again and its sleep ends
HbInit ==
    CallIdle /\ WaitIdle /\ IdsIdle /\ InitHb /\ DiscIdle /\ FaIdle /\ RegIdle /\ ValIdle
    /\ BillIdle

HbSpec == HbInit /\ [][NextHb]_vars /\ WF_vars(HeartbeatStep)

\* the discovery of a running agent against a changing platform list
DiscInit ==
    CallIdle /\ WaitIdle /\ IdsIdle /\ HbIdle /\ InitDisc /\ FaIdle /\ RegIdle /\ ValIdle
    /\ BillIdle

DiscSpec == DiscInit /\ [][NextDisc]_vars

\* one call of find_agents
FaInit ==
    CallIdle /\ WaitIdle /\ IdsIdle /\ HbIdle /\ DiscIdle /\ InitFa /\ RegIdle /\ ValIdle
    /\ BillIdle

FaSpec == FaInit /\ [][NextFa]_vars

\* one service start with its registration
RegInit ==
    CallIdle /\ WaitIdle /\ IdsIdle /\ HbIdle /\ DiscIdle /\ FaIdle /\ InitReg /\ ValIdle
    /\ BillIdle

RegSpec == RegInit /\ [][NextReg]_vars

\* a validator handling requests
ValInit ==
    CallIdle /\ WaitIdle /\ IdsIdle /\ HbIdle /\ DiscIdle /\ FaIdle /\ RegIdle /\ InitVal
    /\ BillIdle

ValSpec == ValInit /\ [][NextVal]_vars

\* one billing inquiry
BillInit ==
    CallIdle /\ WaitIdle /\ IdsIdle /\ HbIdle /\ DiscIdle /\ FaIdle /\ RegIdle /\ ValIdle
    /\ InitBill

BillSpec == BillInit /\ [][NextBill]_vars

(***************************************************************************)
(* Properties of the inbox poll.                                           *)
(***************************************************************************)
\* the eight prefixes a wait recognizes
RecognizedPrefixes ==
    {"validation_response:", "technical_response:", "image_response:", "help_response:",
     "validation_error:", "technical_error:", "image_error:", "help_error:"}

\* thread t's wait returns on the message its scan stands at
WaitReturnsMessage(t) == wait_pc[t] = "add" /\ wait_pc'[t] = "idle"

\* thread t's wait passes over the message its scan stands at
WaitPassesMessage(t) == wait_pc[t] = "scan" /\ wait_index'[t] = wait_index[t] + 1

\* the loop passes the message its scan stands at to handle_incoming_message
LoopHandlesMessage == loop_pc = "handle" /\ loop_pc' # "handle"

\* thread t's wait finds the message its scan stands at unprocessed and matching
WaitAcceptsMessage(t) == wait_pc[t] = "scan" /\ wait_pc'[t] = "add"

\* the loop finds the message its scan stands at unprocessed
LoopAcceptsMessage == loop_pc = "scan" /\ loop_pc' = "handle"

\* C10: a wait does not pass over a message of its inbox fetch that is not
\* yet processed and begins with a recognized response prefix; it returns on
\* it, which adds the message's id to processed_messages, and what it returns
\* is the parsed payload when the payload is well-formed JSON.  No id leaves
\* processed_messages, and neither a wait nor the loop takes up a message
\* whose id is in it: once a wait has returned on a message, every later
\* delivery of that message is passed over.
C10_ResponseReturnedOnce ==
    [][ /\ \A t \in Threads :
             WaitPassesMessage(t) =>
                 LET message == wait_messages[t][wait_index[t]] IN
                 \/ message.id \in processed_messages
                 \/ message.content.prefix \notin RecognizedPrefixes
        /\ \A t \in Threads :
             WaitAcceptsMessage(t) =>
                 LET message == wait_messages[t][wait_index[t]] IN
                 /\ message.content.prefix \in RecognizedPrefixes
                 /\ message.id \notin processed_messages
        /\ \A t \in Threads :
             WaitReturnsMessage(t) =>
                 LET message == wait_messages[t][wait_index[t]] IN
                 /\ message.id \in processed_messages'
                 /\ message.content.payload.text = "json"
                    => wait_result'[t] =
                           [request_id |-> message.content.payload.request_id]
        /\ LoopAcceptsMessage => loop_messages[loop_index].id \notin processed_messages
        /\ processed_messages \subseteq processed_messages'
      ]_vars

\* the main thread's wait has returned the payload of message 1, and the
\* loop, to which message 1 was delivered again, has passed over it without
\* handling it
C10_Witness ==
    /\ Len(inbox) = 1
    /\ inbox[1].content.prefix = "validation_response:"
    /\ wait_pc["main"] = "idle"
    /\ wait_result["main"] = [request_id |-> <<"collab", 0, InstanceId>>]
    /\ returned = {1}
    /\ 1 \in processed_messages
    /\ loop_pc = "scan"
    /\ Len(loop_messages) = 1
    /\ loop_index = 2
    /\ handled = {}

\* C11: whenever the wait of a thread returns a payload, the payload's
\* request_id is the request_id that collaborate_with_agent put into the
\* request the thread waits for.
C11_ResponseCarriesRequestId ==
    [][ \A t \in Threads :
          (WaitReturnsMessage(t) /\ wait_result'[t] # None)
          => wait_result'[t].request_id = wait_request[t].request_id
      ]_vars

\* thread t's wait returns because its timeout has passed
WaitTimesOut(t) == wait_pc[t] = "poll" /\ wait_pc'[t] = "idle"

\* no message of the inbox begins with a recognized response prefix
NoMatchingMessage ==
    \A i \in 1..Len(inbox) : inbox[i].content.prefix \notin RecognizedPrefixes

\* C13: when the inbox holds no matching message, a wait with timeout T
\* returns the timeout outcome at a time between T and T + 2 after its start.
C13_TimeoutWithinOneInterval ==
    [][ \A t \in Threads :
          (WaitTimesOut(t) /\ NoMatchingMessage)
          => /\ timeout <= wait_elapsed[t]
             /\ wait_elapsed[t] <= timeout + PollInterval
      ]_vars

\* thread t's wait takes a step
WaitSteps(t) == wait_pc'[t] # wait_pc[t] \/ wait_index'[t] # wait_index[t]

\* the message thread t's scan stands at has a recognized response prefix
\* and a payload that is no JSON
AtMalformedResponse(t) ==
    /\ wait_pc[t] \in {"scan", "add"}
    /\ wait_index[t] <= Len(wait_messages[t])
    /\ wait_messages[t][wait_index[t]].content.prefix \in RecognizedPrefixes
    /\ wait_messages[t][wait_index[t]].content.payload.text # "json"

\* C14: a wait whose scan stands at an unprocessed message with a recognized
\* prefix and a malformed payload takes the message up, and its next step
\* adds the message's id to processed_messages and returns None: it neither
\* passes over the message, nor polls again, nor sleeps until its timeout.
C14_MalformedReturnsAtOnce ==
    [][ \A t \in Threads :
          (AtMalformedResponse(t) /\ WaitSteps(t)) =>
              LET message == wait_messages[t][wait_index[t]] IN
              /\ (wait_pc[t] = "scan" /\ message.id \notin processed_messages)
                 => wait_pc'[t] = "add"
              /\ wait_pc[t] = "add"
                 => /\ wait_pc'[t] = "idle"
                    /\ wait_result'[t] = None
                    /\ message.id \in processed_messages'
      ]_vars

\* the main thread's wait has returned None on message 1, a validation
\* response whose payload is no JSON, and message 1 is marked processed
C14_Witness ==
    /\ inbox # <<>>
    /\ inbox[1].content = [prefix |-> "validation_response:", payload |-> Garbage]
    /\ returned = {1}
    /\ handled = {}
    /\ wait_pc = [t \in Threads |-> "idle"]
    /\ wait_result["main"] = None
    /\ 1 \in processed_messages

\* C15: the message-processing loop of either agent class passes no
\* message to its handler whose id it has passed to the handler before,
\* whatever the fetches deliver again and whether or not the handler failed.
C15_HandledAtMostOnce ==
    [][ LoopHandlesMessage => loop_messages[loop_index].id \notin handled ]_vars

\* the handler has failed on message 1, a generate_ideas request whose
\* payload is no JSON and which got no reply; the loop has marked it and
\* stands behind it in a fetch that delivered messages 1 and 2
C15_Witness ==
    /\ agent_class = "RealtimeIdeaAgent"
    /\ Len(inbox) = 2
    /\ inbox[1].content = [prefix |-> "generate_ideas:", payload |-> Garbage]
    /\ handled = {1}
    /\ replied = {}
    /\ processed_messages = {1}
    /\ loop_pc = "scan"
    /\ Len(loop_messages) = 2
    /\ loop_index = 2

\* C16: a reply to a message is POSTed only when the message's id is in
\* processed_messages already.
C16_MarkedBeforeReply == replied \subseteq processed_messages

\* message is a well-formed response to the request thread t waits for,
\* which no wait has returned on
IsAwaitedResponse(t, message) ==
    /\ message.content.prefix \in RecognizedPrefixes
    /\ message.content.payload.text = "json"
    /\ message.content.payload.request_id = wait_request[t].request_id
    /\ message.id \notin returned

\* C17: a wait does not time out when one of its polls has fetched a
\* well-formed response to its request.
C17_PresentResponseReturned ==
    [][ \A t \in Threads :
          WaitTimesOut(t) =>
              \A i \in 1..Len(wait_messages[t]) :
                  ~IsAwaitedResponse(t, wait_messages[t][i])
      ]_vars

\* C18: no wait returns on a message that a wait has returned on before.
C18_ReturnedToOneWaiter ==
    [][ \A t \in Threads :
          WaitReturnsMessage(t) => wait_messages[t][wait_index[t]].id \notin returned
      ]_vars

\* the response prefixes that answer a request of a type
ExpectedPrefixes(type) ==
    CASE type = "validate_ideas" -> {"validation_response:", "validation_error:"}
      [] type = "technical_review" -> {"technical_response:", "technical_error:"}
      [] type = "generate_images" -> {"image_response:", "image_error:"}
      [] type = "help_request" -> {"help_response:", "help_error:"}

\* C19: a wait returns only on a message whose prefix is one of the prefixes
\* that answer the type of the request the wait was started for.
C19_OnlyOwnKindAccepted ==
    [][ \A t \in Threads :
          WaitReturnsMessage(t) =>
              wait_messages[t][wait_index[t]].content.prefix
                  \in ExpectedPrefixes(wait_request[t].type)
      ]_vars

\* the step is the loop's processed_messages.add
LoopAddsMessage == loop_pc = "add" /\ loop_pc' = "scan"

\* C20: a step of a wait leaves processed_messages as it was at the id of
\* every inbox message whose content does not begin with a recognized
\* response prefix; only the message loop's own add marks such a message.
C20_NonMatchingLeftUnprocessed ==
    [][ ~LoopAddsMessage =>
          \A k \in 1..Len(inbox) :
              inbox[k].content.prefix \notin RecognizedPrefixes
                  => (inbox[k].id \in processed_messages'
                          <=> inbox[k].id \in processed_messages)
      ]_vars

\* a wait has scanned past a generate_ideas request and returned on the
\* response behind it; the request is still unprocessed
C20_Witness ==
    /\ Len(inbox) = 2
    /\ inbox[1].content.prefix = "generate_ideas:"
    /\ inbox[2].content.prefix = "validation_response:"
    /\ wait_pc["main"] = "idle"
    /\ returned = {2}
    /\ processed_messages = {2}

\* the response prefixes of the error kind
ErrorPrefixes ==
    {"validation_error:", "technical_error:", "image_error:", "help_error:"}

\* C25: the value a collaboration ends with tells its outcome: a wait that
\* times out returns the timeout value, and a wait that returns on a
\* malformed response returns a value that is neither the timeout value nor
\* the value of a request that could not be sent.
C25_OutcomesDistinguishable ==
    [][ \A t \in Threads :
          /\ WaitTimesOut(t) => wait_result'[t] = TimeoutValue
          /\ (WaitReturnsMessage(t) /\ AtMalformedResponse(t))
                => (wait_result'[t] # TimeoutValue /\ wait_result'[t] # NotSentValue)
      ]_vars

\* C26: when a wait returns on a message of an error kind, the request the
\* collaboration serves is not reported as a collaborative success.
C26_PeerErrorIsNotSuccess ==
    [][ \A t \in Threads :
          (WaitReturnsMessage(t)
             /\ wait_messages[t][wait_index[t]].content.prefix \in ErrorPrefixes)
          => CollaborationStatus(wait_result'[t]) # "collaborative_success"
      ]_vars

(***************************************************************************)
(* Properties of the request ids.                                          *)
(***************************************************************************)
\* C12: no two of the request ids collaborate_with_agent generates in one
\* agent process are the same.
C12_UniqueRequestIds ==
    \A i, j \in 1..Len(request_ids) :
        i # j => request_ids[i].request_id # request_ids[j].request_id

(***************************************************************************)
(* Properties of the heartbeat.                                            *)
(***************************************************************************)
\* the last heartbeat failed and the loop sleeps after it
AfterFailedHeartbeat ==
    /\ hb_pc = "sleep"
    /\ hb_log # <<>>
    /\ PingFailed(hb_log[Len(hb_log)])

\* C21: no heartbeat failure leaves the heartbeat loop or ends it; the
\* heartbeat after a failed one is sent when one interval has been slept;
\* and after a failed heartbeat a running agent reaches its next heartbeat.
C21_HeartbeatFailureSwallowed ==
    /\ [](hb_pc # "dead")
    /\ [][ (hb_pc = "send" /\ hb_log' # hb_log /\ hb_log # <<>>)
             => hb_slept = HealthInterval ]_vars
    /\ (AfterFailedHeartbeat /\ hb_running) ~> (hb_pc = "send" \/ ~hb_running)

\* a refused heartbeat has been followed by the next one
C21_Witness ==
    /\ Len(hb_log) = 2
    /\ hb_log[1] = "refused"
    /\ hb_pc = "sleep"
    /\ hb_running

(***************************************************************************)
(* Properties of the peer discovery.                                       *)
(***************************************************************************)
\* the step is a refresh cycle of the discovery loop
RefreshCycle == disc_pc = "fetch" /\ disc_pc' = "sleep"

\* the ids of the instances of a list
ListedIds(instances) == {instances[k].id : k \in 1..Len(instances)}

\* C22 as stated: after every refresh cycle the cache holds no peer that
\* is absent from the platform's current list.
C22_EveryCycleReplaces ==
    [][ RefreshCycle => DOMAIN available_agents' \subseteq ListedIds(platform_list)
      ]_vars

\* C22 amended: a refresh cycle whose fetch is answered 200 with a JSON body
\* replaces the cache by the running peers of the platform's current list,
\* so a peer absent from that list is absent from the cache.
C22_AnsweredCycleReplaces ==
    [][ (RefreshCycle /\ disc_status' = "200") =>
          /\ available_agents' = NewAgents(platform_list, InstanceId)
          /\ DOMAIN available_agents' \subseteq ListedIds(platform_list)
      ]_vars

\* a cached peer has left the platform's list and the refresh has dropped it
C22_Witness ==
    /\ disc_pc = "sleep"
    /\ disc_status = "200"
    /\ 8 \in DOMAIN disc_previous
    /\ 8 \notin ListedIds(platform_list)
    /\ 8 \notin DOMAIN available_agents
    /\ PeerInstanceId \in DOMAIN available_agents

\* C29: the peer cache holds only instances listed as 'running' and never
\* the agent's own instance, each under its own id; a refresh cycle whose
\* fetch is not answered 200 with a JSON body leaves the cache as it was;
\* and the target test_real_messaging chooses is never the agent's own
\* instance nor an instance whose status is neither 'running' nor 'available'.
C29_CacheAndTargetAreLivePeers ==
    /\ [](\A id \in DOMAIN available_agents :
             /\ available_agents[id].id = id
             /\ available_agents[id].status = "running"
             /\ id # InstanceId)
    /\ [][ (RefreshCycle /\ disc_status' # "200")
             => available_agents' = available_agents ]_vars
    /\ [](target_instance # None =>
             /\ target_instance.id # InstanceId
             /\ target_instance.status \in {"running", "available"})

\* the platform lists the agent itself and a stopped peer beside a running
\* one; the cache holds the running peer alone, a later fetch has failed, and
\* test_real_messaging has chosen a peer
C29_Witness ==
    /\ \E k \in 1..Len(platform_list) : platform_list[k].id = InstanceId
    /\ \E k \in 1..Len(platform_list) : platform_list[k].status # "running"
    /\ DOMAIN available_agents = {PeerInstanceId}
    /\ disc_previous = available_agents
    /\ disc_status = "raised"
    /\ target_instance # None


(***************************************************************************)
(* Properties of find_agents.                                              *)
(***************************************************************************)
\* the outcomes the claim names as retried
RetriedOutcomes == {"500", "503", "Timeout", "ConnectionError"}

\* C23: find_agents makes at most max_retries + 1 requests; a 404 is the
\* last request of its call; after a 5xx, a timeout or a connection error the
\* call ends only when max_retries + 1 requests have been made; and a call
\* that ends on anything but a well-formed 200 returns the empty list; the
\* call never raises.
C23_DiscoveryRetries ==
    /\ Len(fa_replies) <= fa_max_retries + 1
    /\ fa_pc # "raised"
    /\ \A k \in 1..Len(fa_replies) :
          fa_replies[k] = "404" => (k = Len(fa_replies) /\ fa_pc = "done")
    /\ (fa_pc = "done" /\ fa_replies[Len(fa_replies)] \in RetriedOutcomes)
          => Len(fa_replies) = fa_max_retries + 1
    /\ (fa_pc = "get" /\ fa_replies # <<>>)
          => fa_replies[Len(fa_replies)] \notin {"200", "404", "400"}
    /\ (fa_pc = "done" /\ fa_replies[Len(fa_replies)] # "200")
          => fa_result = <<>>

\* a server error and a timeout were retried, then a 404 ended the call
\* with retries left
C23_Witness ==
    /\ fa_max_retries = 3
    /\ fa_replies = <<"500", "Timeout", "404">>
    /\ fa_pc = "done"
    /\ fa_result = <<>>


(***************************************************************************)
(* Properties of the registration.                                         *)
(***************************************************************************)
\* the listing of the agents failed or was empty
ListingFailed == reg_listing \in ListingOutcomes \ {"200_agents"}

\* C24: when the listing reports no agents, is answered a status other than
\* 200 or raises, register_with_platform returns False after that one GET and
\* without a POST, the instance id stays unset, and the service start ends
\* without starting the background loops.
C24_NoAgentsNoRegistration ==
    ListingFailed =>
        /\ reg_requests = <<"GET /api/agents">>
        /\ reg_result = False
        /\ instance_id = None
        /\ ~running
        /\ reg_pc \in {"returned", "not_started"}

\* the platform listed no agents and the service start has given up
C24_Witness ==
    /\ reg_agent = "RealtimeIdeaAgent"
    /\ reg_listing = "200_no_agents"
    /\ reg_pc = "not_started"
    /\ reg_requests = <<"GET /api/agents">>

\* C28: when register_with_platform has returned False the instance id is
\* None and the api key is what it was before the call (None in the network
\* agents); when it has returned True both are set.
C28_AllOrNothing ==
    /\ reg_result = False =>
          /\ instance_id = None
          /\ reg_agent # "TaskManagerAgent" => api_key = None
    /\ reg_result = True =>
          /\ instance_id # None
          /\ api_key # None


(***************************************************************************)
(* Properties of the validator's replies.                                  *)
(***************************************************************************)
\* C27: when the validator has handled a validate_ideas, fact_check or
\* help_request message that names its sender, it has sent exactly one reply,
\* to that sender, of the request's response type or error type, carrying the
\* request_id of the request.
C27_OneReplyPerRequest ==
    (val_pc = "handled" /\ val_message.kind \in RequestKinds
        /\ FromAgent(val_message) # None /\ val_message.payload # "json_no_id")
    => /\ Len(val_replies) = 1
       /\ val_replies[1].to = FromAgent(val_message)
       /\ val_replies[1].type \in {ResponseTypeOf(val_message.kind),
                                   ErrorTypeOf(val_message.kind)}
       /\ val_replies[1].request_id = SentRequestId


(***************************************************************************)
(* Properties of the billing inquiry.                                      *)
(***************************************************************************)
\* every call made so far failed
AllCallsFailed ==
    \A k \in 1..Len(bill_calls) : ~ResponseSucceeded(bill_calls[k].response)

\* C30: the handler calls at most three agents, the k-th call going to the
\* k-th agent of the discovered list; only the last call made can have
\* succeeded; it returns 'completed' for the agent of a successful call, and
\* the manual handling exactly when discovery returned no agent or each of
\* the first three agents (all of them, when fewer) was called and failed;
\* it returns nothing else.
C30_BillingFallback ==
    /\ Len(bill_calls) <= 3
    /\ \A k \in 1..Len(bill_calls) :
          /\ bill_calls[k].agent = billing_agents[k]
          /\ k < Len(bill_calls) => ~ResponseSucceeded(bill_calls[k].response)
    /\ (bill_calls # <<>> /\ ResponseSucceeded(bill_calls[Len(bill_calls)].response))
          => bill_result = CompletedResult(bill_calls[Len(bill_calls)].agent)
    /\ bill_pc = "returned" =>
          /\ bill_result \in {ManualResult} \cup
                 {CompletedResult(billing_agents[k]) : k \in 1..Len(billing_agents)}
          /\ bill_result = ManualResult <=>
                 \/ billing_agents = <<>>
                 \/ /\ AllCallsFailed
                    /\ Len(bill_calls) = TriedCount(billing_agents)
    /\ bill_pc = "call" => (bill_result = None /\ AllCallsFailed)

\* four agents were discovered, the first two failed and the third
\* handled the inquiry
C30_Witness ==
    /\ bill_pc = "returned"
    /\ Len(billing_agents) = 4
    /\ Len(bill_calls) = 3
    /\ bill_calls[1].response = "error"
    /\ bill_calls[2].response = "none"
    /\ bill_result = CompletedResult(billing_agents[3])


=============================================================================
